---- MODULE Spec2Model ----
(***************************************************************************)
(* A model of tailornet/models/tailor_networks.py: the input masking       *)
(* functions, the three MLP sub-models (LF, HF, SS2G) and the TailorNet    *)
(* predictor with its RBF kernel blending stage (interp4).                 *)
(*                                                                         *)
(* Numbers.  Tensor entries are finite floats; they are modelled as        *)
(* integers counted in halves, so that the legacy gamma offset 1.5 is the  *)
(* integer 3.  A 2-D tensor of shape [N, w] is a sequence of N rows, each  *)
(* a sequence of w entries (1-based here, 0-based in the source).          *)
(***************************************************************************)
EXTENDS Integers, Sequences, FiniteSets, TLC

VARIABLES
    cloth_type,          \* the cloth_type argument of the masking call under test
    thetas,              \* the caller's thetas argument (None or a tensor)
    betas,               \* the caller's betas argument
    gammas,              \* the caller's gammas argument
    pc,                  \* position of the call in progress
    ret,                 \* what the last call returned or raised
    ret2,                \* what a second mask_inputs call on ret returned
    tailornet_lf,        \* TailorNet.tailornet_lf
    tailornet_hfs,       \* TailorNet.tailornet_hfs, one sub-model per pivot
    tailornet_ss2g,      \* TailorNet.tailornet_ss2g
    basis,               \* TailorNet.basis: [P, V, 3]
    kernel_sigma,        \* TailorNet.kernel_sigma
    pred_disp_hf_pivot,  \* forward: the HF outputs computed so far, [N, V, 3] each
    weight,              \* interp4: the normalized weights, [N, P]
    pred_disp_hf,        \* forward: the blended HF field, [N, V, 3]
    ran,                 \* the sub-model forward calls of this call, in order
    loaded,              \* per sub-model: load_checkpoint has set its weights
    training,            \* per sub-model: nn.Module.training of its mlp
    files,               \* the files that exist under load_checkpoints_dir
    built,               \* the predictor as its constructor left it
    earlier              \* the first forward call completed: arguments and result

inputs == <<thetas, betas, gammas>>

predictor == <<tailornet_lf, tailornet_hfs, tailornet_ss2g, basis, kernel_sigma,
               loaded, training>>

\* what is not part of the predictor object or of a call
environment == <<files, built, earlier>>

locals == <<pred_disp_hf_pivot, weight, pred_disp_hf, ran>>

vars == <<cloth_type, thetas, betas, gammas, pc, ret, ret2, tailornet_lf,
          tailornet_hfs, tailornet_ss2g, basis, kernel_sigma,
          pred_disp_hf_pivot, weight, pred_disp_hf, ran, loaded, training,
          files, built, earlier>>

----------------------------------------------------------------------------
(* Bounds of the model. *)

\* Largest magnitude of an input entry, in halves (3 halves = 1.5).
MaxVal == 3

\* Largest batch size N of an input tensor.
MaxBatch == 2

----------------------------------------------------------------------------
(* Python values: None, a 2-D tensor, or a raised exception. *)

\* F applied to the value of x, with x computed once
Bind(x, F(_)) == CHOOSE r \in {F(v) : v \in {x}} : TRUE

None == [kind |-> "None", rows |-> <<>>, err |-> ""]

\* The entries of a sequence, of a sequence of rows and of a sequence of
\* sequences of rows, computed once and stored (a tensor's buffer).
Mat(s) == s \o <<>>

Mat2(rows) == Mat([i \in 1..Len(rows) |-> Mat(rows[i])])

Mat3(t) == Mat([i \in 1..Len(t) |-> Mat2(t[i])])

Tensor(rows) == [kind |-> "tensor", rows |-> Mat2(rows), err |-> ""]

\* a 3-D tensor [N, V, 3]
Tensor3(t) == [kind |-> "tensor", rows |-> Mat3(t), err |-> ""]

Raise(e) == [kind |-> "error", rows |-> <<>>, err |-> e]

IsNone(x) == x.kind = "None"

IsTensor(x) == x.kind = "tensor"

IsError(x) == x.kind = "error"

\* shape[0] and shape[1] of a 2-D tensor
NRows(t) == Len(t.rows)

NCols(t) == Len(t.rows[1])

\* s[lo] + ... + s[hi]
RECURSIVE SumRange(_, _, _)
SumRange(s, lo, hi) ==
    IF lo > hi THEN 0
    ELSE IF lo = hi THEN s[lo]
    ELSE LET mid == (lo + hi) \div 2
         IN  SumRange(s, lo, mid) + SumRange(s, mid + 1, hi)

\* the sum of the entries of a sequence
SumSeq(s) == Bind(Mat(s), LAMBDA m : SumRange(m, 1, Len(m)))

\* row-major flattening of a sequence of rows
RECURSIVE FlattenFrom(_, _)
FlattenFrom(rows, k) ==
    IF k > Len(rows) THEN <<>> ELSE rows[k] \o FlattenFrom(rows, k + 1)

Flatten(rows) == Bind(Mat(rows), LAMBDA m : FlattenFrom(m, 1))

\* numpy/torch broadcasting of one dimension
BroadcastOK(n, m) == n = m \/ n = 1 \/ m = 1

BroadcastLen(n, m) == IF n = 1 THEN m ELSE n

\* a * b for 2-D tensors, with broadcasting; RuntimeError on incompatible shapes
TensorMul(a0, b0) ==
    Bind(a0, LAMBDA a : Bind(b0, LAMBDA b :
    IF ~(BroadcastOK(NRows(a), NRows(b)) /\ BroadcastOK(NCols(a), NCols(b)))
    THEN Raise("RuntimeError")
    ELSE Tensor([i \in 1..BroadcastLen(NRows(a), NRows(b)) |->
                 [j \in 1..BroadcastLen(NCols(a), NCols(b)) |->
                    a.rows[IF NRows(a) = 1 THEN 1 ELSE i][IF NCols(a) = 1 THEN 1 ELSE j]
                  * b.rows[IF NRows(b) = 1 THEN 1 ELSE i][IF NCols(b) = 1 THEN 1 ELSE j]]])))

\* a + b for 2-D tensors, with broadcasting
TensorAdd(a0, b0) ==
    Bind(a0, LAMBDA a : Bind(b0, LAMBDA b :
    IF ~(BroadcastOK(NRows(a), NRows(b)) /\ BroadcastOK(NCols(a), NCols(b)))
    THEN Raise("RuntimeError")
    ELSE Tensor([i \in 1..BroadcastLen(NRows(a), NRows(b)) |->
                 [j \in 1..BroadcastLen(NCols(a), NCols(b)) |->
                    a.rows[IF NRows(a) = 1 THEN 1 ELSE i][IF NCols(a) = 1 THEN 1 ELSE j]
                  + b.rows[IF NRows(b) = 1 THEN 1 ELSE i][IF NCols(b) = 1 THEN 1 ELSE j]]])))

----------------------------------------------------------------------------
(* The masking table and the masking functions. *)

\* Declared feature widths: 24 joints x 3 rotation components, 10 and 4.
NumJoints == 24

JointDim == 3

ThetaWidth == NumJoints * JointDim

BetaWidth == 10

GammaWidth == 4

\* joints (0-based, as in the source) which affect each garment
VALID_THETA ==
    [c \in {"t-shirt", "old-t-shirt", "shirt", "pant", "skirt"} |->
        CASE c = "t-shirt"     -> {0, 1, 2, 3, 6, 9, 12, 13, 14, 16, 17, 18, 19}
          [] c = "old-t-shirt" -> {0, 1, 2, 3, 6, 9, 12, 13, 14, 16, 17, 18, 19}
          [] c = "shirt"       -> {0, 1, 2, 3, 6, 9, 12, 13, 14, 16, 17, 18, 19, 20, 21}
          [] c = "pant"        -> {0, 1, 2, 4, 5, 7, 8}
          [] c = "skirt"       -> {0, 1, 2}]

\* valid_beta = [0, 1] and valid_gamma = [0, 1] (0-based columns)
valid_beta == {0, 1}

valid_gamma == {0, 1}

\* torch.tensor([[0., 0., 1.5, 0.]]), in halves
GammaOffset == Tensor(<< <<0, 0, 3, 0>> >>)

\* torch.zeros_like(t) with mask[:, cols] = 1. for 0-based columns cols;
\* IndexError when a column is out of range
ColumnMask(t, cols) ==
    IF \E c \in cols : c >= NCols(t)
    THEN Raise("IndexError")
    ELSE Tensor([i \in 1..NRows(t) |->
                 [j \in 1..NCols(t) |-> IF (j - 1) \in cols THEN 1 ELSE 0]])

\* t * mask for the mask of the columns cols
MaskColumns(t, cols) ==
    Bind(ColumnMask(t, cols), LAMBDA mask :
         IF IsError(mask) THEN mask ELSE TensorMul(t, mask))

\* zeros_like(thetas).view(-1, 24, 3); mask[:, valid_theta, :] = 1.;
\* mask.view(-1, 72), for a tensor of numel entries
JointMask(numel, valid_theta) ==
    Tensor([m \in 1..(numel \div ThetaWidth) |->
            [j \in 1..ThetaWidth |->
               IF ((j - 1) \div JointDim) \in valid_theta THEN 1 ELSE 0]])

\* mutant: the mask is set by column index, without the view(-1, 24, 3)
mask_thetas_ByColumn(th0, ct) ==
    Bind(th0, LAMBDA th :
    IF ct \notin DOMAIN VALID_THETA THEN Raise("KeyError")
    ELSE IF ~IsTensor(th) THEN Raise("TypeError")
    ELSE MaskColumns(th, VALID_THETA[ct]))

mask_thetas(th0, ct) ==
    Bind(th0, LAMBDA th :
    IF ct \notin DOMAIN VALID_THETA THEN Raise("KeyError")
    ELSE IF ~IsTensor(th) THEN Raise("TypeError")
    ELSE IF (NRows(th) * NCols(th)) % ThetaWidth # 0 THEN Raise("RuntimeError")
    ELSE TensorMul(th, JointMask(NRows(th) * NCols(th), VALID_THETA[ct])))

mask_betas(be0, ct) ==
    Bind(be0, LAMBDA be :
    IF ~IsTensor(be) THEN Raise("TypeError")
    ELSE MaskColumns(be, valid_beta))

\* mutant: the legacy offset is added to the unmasked gammas
mask_gammas_OffsetUnmasked(ga0, ct) ==
    Bind(ga0, LAMBDA ga :
    IF ~IsTensor(ga) THEN Raise("TypeError")
    ELSE Bind(MaskColumns(ga, valid_gamma), LAMBDA masked :
              IF IsError(masked) THEN masked
              ELSE IF ct = "old-t-shirt" THEN TensorAdd(ga, GammaOffset)
              ELSE masked))

\* mutant: the legacy offset is added before masking instead of after
mask_gammas_OffsetFirst(ga0, ct) ==
    Bind(ga0, LAMBDA ga :
    IF ~IsTensor(ga) THEN Raise("TypeError")
    ELSE Bind(IF ct = "old-t-shirt" THEN TensorAdd(ga, GammaOffset) ELSE ga,
              LAMBDA shifted :
              IF IsError(shifted) THEN shifted
              ELSE MaskColumns(shifted, valid_gamma)))

mask_gammas(ga0, ct) ==
    Bind(ga0, LAMBDA ga :
    IF ~IsTensor(ga) THEN Raise("TypeError")
    ELSE Bind(MaskColumns(ga, valid_gamma), LAMBDA masked :
              IF IsError(masked) THEN masked
              ELSE IF ct = "old-t-shirt" THEN TensorAdd(masked, GammaOffset)
              ELSE masked))

\* the triple to return, or the first exception raised in computing it
FirstError(t, b, g) ==
    IF IsError(t) THEN <<t, t, t>>
    ELSE IF IsError(b) THEN <<b, b, b>>
    ELSE IF IsError(g) THEN <<g, g, g>>
    ELSE <<t, b, g>>

\* mutant: every input is masked, without the `is not None` tests
mask_inputs_NoNoneTest(th, be, ga, ct) ==
    Bind(<<mask_thetas(th, ct), mask_betas(be, ct), mask_gammas(ga, ct)>>,
         LAMBDA m : FirstError(m[1], m[2], m[3]))

\* The triple mask_inputs returns, or the exception of the first failing step.
mask_inputs(th, be, ga, ct) ==
    Bind(<<IF ~IsNone(th) THEN mask_thetas(th, ct) ELSE th,
           IF ~IsNone(be) THEN mask_betas(be, ct) ELSE be,
           IF ~IsNone(ga) THEN mask_gammas(ga, ct) ELSE ga>>,
         LAMBDA m : FirstError(m[1], m[2], m[3]))

----------------------------------------------------------------------------
(* The MLP (FullyConnected) and the three sub-models.  The networks are    *)
(* evaluated as at inference (eval mode: nn.Dropout is the identity).      *)

\* params['hidden_size'] of the model (1024 by default in the source)
HiddenSize == 2

\* params['num_layers'] (default)
NumLayers == 3

\* dataset.unpose_v.shape[1]: the number V of garment vertices
NumVerts == 2

CoordDim == 3

\* n_verts = dataset.unpose_v.shape[1] * 3
n_verts == NumVerts * CoordDim

\* The parameters of a network: entry (o, i) of the weight matrix and entry
\* o of the bias of its l-th nn.Linear, for the network with parameters
\* number seed (what load_checkpoint or the initialisation put there).
Weight(seed, l, o, i) == ((seed + l + 2 * o + (i * (i + o)) \div 2) % 3) - 1

Bias(seed, l, o) == (seed + l + o) % 2

\* nn.Linear(in_f, out_f) applied to x: RuntimeError unless x is [N, in_f]
Linear(seed, l, in_f, out_f, x0) ==
    Bind(x0, LAMBDA x :
    IF IsError(x) THEN x
    ELSE IF ~IsTensor(x) THEN Raise("TypeError")
    ELSE IF NCols(x) # in_f THEN Raise("RuntimeError")
    ELSE Tensor([n \in 1..NRows(x) |->
                 [o \in 1..out_f |->
                    SumSeq([i \in 1..in_f |-> Weight(seed, l, o, i) * x.rows[n][i]])
                    + Bias(seed, l, o)]]))

\* nn.ReLU
ReLU(x0) ==
    Bind(x0, LAMBDA x :
    IF IsError(x) THEN x
    ELSE Tensor([n \in 1..NRows(x) |->
                 [o \in 1..NCols(x) |->
                    IF x.rows[n][o] > 0 THEN x.rows[n][o] ELSE 0]]))

\* the hidden Linear + ReLU pairs l = 2 .. num_layers - 1
RECURSIVE HiddenLayers(_, _, _, _)
HiddenLayers(seed, l, last, x) ==
    IF l > last THEN x
    ELSE HiddenLayers(seed, l + 1, last,
                      ReLU(Linear(seed, l, HiddenSize, HiddenSize, x)))

\* FullyConnected(input_size, output_size, hidden_size, num_layers).forward
FullyConnected(seed, input_size, output_size, x) ==
    Linear(seed, NumLayers, HiddenSize, output_size,
           HiddenLayers(seed, 2, NumLayers - 1,
                        ReLU(Linear(seed, 1, input_size, HiddenSize, x))))

\* torch.cat(ts, dim=1) of a sequence of values: TypeError on None,
\* RuntimeError unless all have the same number of rows
TorchCat(ts0) ==
    Bind(ts0, LAMBDA ts :
    IF \E k \in 1..Len(ts) : IsError(ts[k])
    THEN ts[CHOOSE k \in 1..Len(ts) :
                IsError(ts[k]) /\ \A k2 \in 1..(k - 1) : ~IsError(ts[k2])]
    ELSE IF \E k \in 1..Len(ts) : ~IsTensor(ts[k]) THEN Raise("TypeError")
    ELSE IF \E k \in 1..Len(ts) : NRows(ts[k]) # NRows(ts[1]) THEN Raise("RuntimeError")
    ELSE Tensor([n \in 1..NRows(ts[1]) |->
                 Flatten([k \in 1..Len(ts) |-> ts[k].rows[n]])]))

\* A sub-model is a record [cloth_type, seed]: params['garment_class'] and
\* the number of its parameters.

\* TailorNetLF.forward(thetas, betas, gammas): [N, n_verts]
TailorNetLF_forward(net, th, be, ga) ==
    Bind(mask_inputs(th, be, ga, net.cloth_type), LAMBDA m :
         IF IsError(m[1]) THEN m[1]
         ELSE FullyConnected(net.seed, ThetaWidth + BetaWidth + GammaWidth, n_verts,
                             TorchCat(<<m[1], m[2], m[3]>>)))

\* TailorNetHF.forward(thetas, betas, gammas): [N, n_verts]
TailorNetHF_forward(net, th, be, ga) ==
    FullyConnected(net.seed, ThetaWidth, n_verts, mask_thetas(th, net.cloth_type))

\* TailorNetSS2G.forward(thetas, betas, gammas): [N, n_verts]
TailorNetSS2G_forward(net, th, be, ga) ==
    Bind(mask_inputs(None, be, ga, net.cloth_type), LAMBDA m :
         IF IsError(m[1]) THEN m[1]
         ELSE FullyConnected(net.seed, BetaWidth + GammaWidth, n_verts,
                             TorchCat(<<m[2], m[3]>>)))

----------------------------------------------------------------------------
(* Masking calls: the inputs are drawn from bounded sets, then mask_inputs *)
(* is applied, and applied once more to its own result.                    *)

Vals == {-MaxVal, 0, MaxVal}

Categories == DOMAIN VALID_THETA

\* a cloth_type outside the masking table
UnknownCloth == "dress"

ClothTypes == Categories \cup {UnknownCloth}

\* a row of width w: entry hot (0-based columns in cols) is a, the rest b
Row(w, cols, a, b) == [j \in 1..w |-> IF (j - 1) \in cols THEN a ELSE b]

JointCols(jt) == {JointDim * jt + c : c \in 0..(JointDim - 1)}

Neg(row) == [j \in 1..Len(row) |-> -row[j]]

\* a batch of n rows: the row, its negation, the row, ...
Batch(row, n) == Tensor([i \in 1..n |-> IF i % 2 = 1 THEN row ELSE Neg(row)])

ThetaRows == {Row(ThetaWidth, JointCols(jt), MaxVal, b) : jt \in 0..(NumJoints - 1), b \in Vals}

BetaRows == {Row(BetaWidth, {k}, MaxVal, b) : k \in 0..(BetaWidth - 1), b \in {0, MaxVal}}

GammaRows == [1..GammaWidth -> Vals]

ThetaFew == {Row(ThetaWidth, {}, 0, MaxVal), Row(ThetaWidth, {}, 0, -MaxVal)}

BetaFew == {Row(BetaWidth, {}, 0, MaxVal), Row(BetaWidth, {}, 0, -MaxVal)}

GammaFew == {Row(GammaWidth, {}, 0, MaxVal), Row(GammaWidth, {}, 0, -MaxVal)}

\* (theta, beta, gamma) rows: one of the three ranges over its full set of
\* rows while the other two range over two rows each
MaskRowTriples ==
    (ThetaRows \X BetaFew \X GammaFew)
    \cup (ThetaFew \X BetaRows \X GammaFew)
    \cup (ThetaFew \X BetaFew \X GammaRows)

\* one flag per sub-model of a predictor with P pivots, all of them f
Flags(P, f) == [lf |-> f, hfs |-> [p \in 1..P |-> f], ss2g |-> f]

\* no predictor is constructed and no forward call is in progress
NoPredictor ==
    /\ tailornet_lf = <<>>
    /\ tailornet_hfs = <<>>
    /\ tailornet_ss2g = <<>>
    /\ basis = <<>>
    /\ kernel_sigma = 0
    /\ loaded = Flags(0, FALSE)
    /\ training = Flags(0, FALSE)

\* no file is read, and no forward call has been made
NoEnvironment ==
    /\ files = {}
    /\ built = <<>>
    /\ earlier = {}

NoLocals ==
    /\ pred_disp_hf_pivot = <<>>
    /\ weight = <<>>
    /\ pred_disp_hf = <<>>
    /\ ran = <<>>

MaskInit ==
    /\ cloth_type \in ClothTypes
    /\ \E tr \in MaskRowTriples, n \in 1..MaxBatch, absent \in SUBSET {1, 2, 3} :
          /\ thetas = IF 1 \in absent THEN None ELSE Batch(tr[1], n)
          /\ betas  = IF 2 \in absent THEN None ELSE Batch(tr[2], n)
          /\ gammas = IF 3 \in absent THEN None ELSE Batch(tr[3], n)
    /\ pc = "start"
    /\ ret = <<None, None, None>>
    /\ ret2 = <<None, None, None>>
    /\ NoPredictor
    /\ NoLocals
    /\ NoEnvironment

\* thetas, betas, gammas = mask_inputs(thetas, betas, gammas, cloth_type):
\* the results are new tensors, the caller's tensors keep their contents
CallMaskInputs ==
    /\ pc = "start"
    /\ ret' = mask_inputs(thetas, betas, gammas, cloth_type)
    /\ pc' = "masked"
    /\ UNCHANGED <<cloth_type, thetas, betas, gammas, ret2, predictor, environment, locals>>

\* mask_inputs applied to the triple a first call returned
CallMaskInputsAgain ==
    /\ pc = "masked"
    /\ ~IsError(ret[1])
    /\ ret2' = mask_inputs(ret[1], ret[2], ret[3], cloth_type)
    /\ pc' = "remasked"
    /\ UNCHANGED <<cloth_type, thetas, betas, gammas, ret, predictor, environment, locals>>

MaskNext == CallMaskInputs \/ CallMaskInputsAgain

SpecMask == MaskInit /\ [][MaskNext]_vars

----------------------------------------------------------------------------
(* Sub-model calls: one forward call of the LF, an HF or the SS2G          *)
(* predictor on tensors whose feature widths range around the declared     *)
(* ones.                                                                   *)

\* Largest difference between a feature width tried and the declared one.
MaxSkew == 1

Widths(w) == {1} \cup {w + d : d \in (-MaxSkew)..MaxSkew}

\* a sub-model: params['garment_class'] and the number of its parameters
SubModel(ct, seed) == [cloth_type |-> ct, seed |-> seed]

SubInit ==
    /\ cloth_type \in Categories
    /\ tailornet_lf = SubModel(cloth_type, 0)
    /\ tailornet_hfs = << SubModel(cloth_type, 2) >>
    /\ tailornet_ss2g = SubModel(cloth_type, 1)
    /\ basis = <<>>
    /\ kernel_sigma = 0
    /\ loaded = Flags(1, TRUE)
    /\ training = Flags(1, FALSE)
    /\ NoEnvironment
    /\ \E n \in 1..MaxBatch, a \in Vals \ {0} :
          /\ \E w \in Widths(ThetaWidth) : thetas = Batch(Row(w, {}, 0, a), n)
          /\ \E w \in Widths(BetaWidth) : betas = Batch(Row(w, {}, 0, a), n)
          /\ \E w \in Widths(GammaWidth) : gammas = Batch(Row(w, {}, 0, a), n)
    /\ pc = "start"
    /\ ret = None
    /\ ret2 = <<None, None, None>>
    /\ NoLocals

\* pred_verts = tailornet_lf.forward(thetas, betas, gammas)
CallLF ==
    /\ pc = "start"
    /\ ret' = TailorNetLF_forward(tailornet_lf, thetas, betas, gammas)
    /\ pc' = "lf_done"
    /\ UNCHANGED <<cloth_type, inputs, ret2, predictor, environment, locals>>

\* pred_verts = tailornet_hf.forward(thetas, betas, gammas)
CallHF ==
    /\ pc = "start"
    /\ ret' = TailorNetHF_forward(tailornet_hfs[1], thetas, betas, gammas)
    /\ pc' = "hf_done"
    /\ UNCHANGED <<cloth_type, inputs, ret2, predictor, environment, locals>>

\* pred_verts = tailornet_ss2g.forward(betas=betas, gammas=gammas)
CallSS2G ==
    /\ pc = "start"
    /\ ret' = TailorNetSS2G_forward(tailornet_ss2g, None, betas, gammas)
    /\ pc' = "ss2g_done"
    /\ UNCHANGED <<cloth_type, inputs, ret2, predictor, environment, locals>>

SubNext == CallLF \/ CallHF \/ CallSS2G

SpecSub == SubInit /\ [][SubNext]_vars

----------------------------------------------------------------------------
(* The TailorNet predictor: forward and interp4.                           *)
(*                                                                         *)
(* A 3-D tensor [N, V, 3] is a sequence of N sequences of V triples.  The  *)
(* normalized weights and the blended fields are quotients; they are kept  *)
(* exact, as records [num, den] that stand for num / den.  A record with   *)
(* den = 0 is the 0/0 of the division by a zero sum of weights: NaN.       *)

\* Largest number P of pivots (dataset.shape_style_pairs).
MaxPivots == 2

\* exp(-x) is positive for x <= ExpUnderflow and underflows to 0. beyond
\* (float32: x > 103.97).  x is counted in whole steps (of ln 2).
ExpUnderflow == 4

\* the factor of (dist ** 2).sum(-1).mean(-1) * 1000.
DistScale == 1000

RECURSIVE Pow2(_)
Pow2(n) == IF n = 0 THEN 1 ELSE 2 * Pow2(n - 1)

\* torch.exp(-x) for x >= 0, in units of 2^(-ExpUnderflow)
ExpNeg(x) == IF x > ExpUnderflow THEN 0 ELSE Pow2(ExpUnderflow - x)

\* t.view(bs, -1, 3) of a 2-D tensor: RuntimeError unless it has a multiple
\* of 3 * bs entries
View3(t0, bs) ==
    Bind(t0, LAMBDA t :
    IF IsError(t) THEN t
    ELSE Bind(Flatten(t.rows), LAMBDA flat :
         LET nv == Len(flat) \div (CoordDim * bs)
         IN  IF Len(flat) % (CoordDim * bs) # 0 THEN Raise("RuntimeError")
             ELSE Tensor3([b \in 1..bs |-> [v \in 1..nv |-> [c \in 1..CoordDim |->
                             flat[((b - 1) * nv + (v - 1)) * CoordDim + c]]]])))

\* ((rest_verts[b] - basis[p]) ** 2).sum(-1) summed over the vertices, the
\* vertex dimension broadcast (nv vertices after broadcasting)
SquaredDist(rest_b, basis_p, nv) ==
    SumSeq([v \in 1..nv |->
        SumSeq([c \in 1..CoordDim |->
            LET d == rest_b[IF Len(rest_b) = 1 THEN 1 ELSE v][c]
                     - basis_p[IF Len(basis_p) = 1 THEN 1 ELSE v][c]
            IN  d * d])])

\* -dist / sigma negated: dist = (dist ** 2).sum(-1).mean(-1) * 1000.
KernelArg(rest_b, basis_p, nv, sigma) ==
    (DistScale * SquaredDist(rest_b, basis_p, nv)) \div (nv * sigma)

\* mutant: the weights are left as exp(-dist/sigma), not divided by their sum
NormalizedWeights_Unnormalized(e0) ==
    Bind(e0, LAMBDA e :
    Mat2([b \in 1..Len(e) |-> [p \in 1..Len(e[b]) |->
        [num |-> e[b][p], den |-> 1]]]))

\* weight = torch.exp(-dist/sigma); weight / weight.sum(1, keepdim=True)
NormalizedWeights(e0) ==
    Bind(e0, LAMBDA e :
    Mat2([b \in 1..Len(e) |-> [p \in 1..Len(e[b]) |->
        [num |-> e[b][p], den |-> SumSeq(e[b])]]]))

\* (pred_disp_pivot * weight.unsqueeze(-1).unsqueeze(-1)).sum(1)
\* pivot[p] is the [N, V, 3] output of the p-th HF sub-model
Blend(pivot, w0) ==
    Bind(w0, LAMBDA w :
    Mat3([b \in 1..Len(w) |-> [v \in 1..Len(pivot[1][b]) |-> [c \in 1..CoordDim |->
        [num |-> SumSeq([p \in 1..Len(pivot) |-> pivot[p][b][v][c] * w[b][p].num]),
         den |-> w[b][1].den]]]]))

\* torch.exp(-dist/sigma) for the [bs, nr, 3] rest vertices and the
\* [P, nb, 3] basis: [bs, P]
KernelWeights(rest, bas, sigma) ==
    LET nv == BroadcastLen(Len(rest[1]), Len(bas[1]))
    IN  Mat2([b \in 1..Len(rest) |-> [p \in 1..Len(bas) |->
                ExpNeg(KernelArg(rest[b], bas[p], nv, sigma))]])

\* What interp4 computes: [err, weight, pred_disp].
\* rest_verts = self.tailornet_ss2g.forward(betas=betas, gammas=gammas).view(bs, -1, 3)
interp4(ss2g, bas, th, be, ga, pivot, sigma) ==
    Bind(View3(TailorNetSS2G_forward(ss2g, None, be, ga), Len(pivot[1])),
         LAMBDA rest_verts :
    IF IsError(rest_verts)
    THEN [err |-> rest_verts, weight |-> <<>>, pred_disp |-> <<>>]
    ELSE IF ~BroadcastOK(Len(rest_verts.rows[1]), Len(bas[1]))
    THEN [err |-> Raise("RuntimeError"), weight |-> <<>>, pred_disp |-> <<>>]
    ELSE Bind(NormalizedWeights(KernelWeights(rest_verts.rows, bas, sigma)),
              LAMBDA w : [err |-> None, weight |-> w, pred_disp |-> Blend(pivot, w)]))

\* the sub-model forward call recorded when it is made, with its arguments
RanCall(sub, th, be, ga) == [sub |-> sub, thetas |-> th, betas |-> be, gammas |-> ga]

\* the constant vertex field [V, 3] with every coordinate g
ConstField(g) == [v \in 1..NumVerts |-> [c \in 1..CoordDim |-> g]]

BasisVals == {0, 1}

Sigmas == {DistScale, 4 * DistScale}

\* The state after TailorNet.__init__ and TailorNet.eval(): P pivots, one HF
\* sub-model and one basis row per pivot, the sub-models of one garment
\* class, every checkpoint loaded.
FwdInit ==
    /\ cloth_type \in {"old-t-shirt", "pant"}
    /\ tailornet_lf = SubModel(cloth_type, 0)
    /\ tailornet_ss2g = SubModel(cloth_type, 1)
    /\ \E P \in 1..MaxPivots :
          /\ tailornet_hfs = [p \in 1..P |-> SubModel(cloth_type, 1 + p)]
          /\ \E g \in [1..P -> BasisVals] : basis = [p \in 1..P |-> ConstField(g[p])]
    /\ kernel_sigma \in Sigmas
    /\ loaded = Flags(Len(tailornet_hfs), TRUE)
    /\ training = Flags(Len(tailornet_hfs), FALSE)
    /\ files = {}
    /\ built = predictor
    /\ earlier = {}
    /\ thetas = None /\ betas = None /\ gammas = None
    /\ pc = "idle"
    /\ ret = None
    /\ ret2 = <<None, None, None>>
    /\ NoLocals

\* model.forward(betas, thetas, gammas) is called: batch_size = thetas.shape[0].
\* The predictor keeps nothing from one call to the next; a behaviour is
\* one call.
ForwardCall ==
    /\ pc = "idle"
    /\ \E s \in {0, MaxVal}, g \in {0, -MaxVal} :
          /\ \E n \in 1..MaxBatch : thetas' = Batch(Row(ThetaWidth, {}, 0, MaxVal), n)
          /\ \E n \in 1..MaxBatch : betas' = Batch(Row(BetaWidth, {}, 0, s), n)
          /\ \E n \in 1..MaxBatch : gammas' = Batch(Row(GammaWidth, {}, 0, g), n)
    /\ pc' = "hf"
    /\ ret' = None
    /\ pred_disp_hf_pivot' = <<>>
    /\ weight' = <<>>
    /\ pred_disp_hf' = <<>>
    /\ ran' = <<>>
    /\ UNCHANGED <<cloth_type, ret2, predictor, environment>>

\* mutant: the output of each HF sub-model is put in front of the earlier
\* ones, so that the slots are in the reverse of the pivot order
ForwardHF_Prepends ==
    /\ pc = "hf"
    /\ \E k \in {Len(pred_disp_hf_pivot) + 1} :
       \E out \in {View3(TailorNetHF_forward(tailornet_hfs[k], thetas, betas, gammas),
                         NRows(thetas))} :
           /\ ran' = Append(ran, RanCall("hf", thetas, betas, gammas))
           /\ IF IsError(out)
              THEN /\ ret' = out
                   /\ pc' = "returned"
                   /\ UNCHANGED pred_disp_hf_pivot
              ELSE /\ pred_disp_hf_pivot' = <<out.rows>> \o pred_disp_hf_pivot
                   /\ pc' = IF k = Len(tailornet_hfs) THEN "interp4" ELSE "hf"
                   /\ UNCHANGED ret
    /\ UNCHANGED <<cloth_type, inputs, ret2, predictor, environment, weight, pred_disp_hf>>

\* one element of the list comprehension over self.tailornet_hfs:
\* tailornet_hf.forward(thetas, betas, gammas).view(batch_size, -1, 3);
\* after the last one, torch.stack(...).transpose(0, 1)
ForwardHF ==
    /\ pc = "hf"
    /\ \E k \in {Len(pred_disp_hf_pivot) + 1} :
       \E out \in {View3(TailorNetHF_forward(tailornet_hfs[k], thetas, betas, gammas),
                         NRows(thetas))} :
           /\ ran' = Append(ran, RanCall("hf", thetas, betas, gammas))
           /\ IF IsError(out)
              THEN /\ ret' = out
                   /\ pc' = "returned"
                   /\ UNCHANGED pred_disp_hf_pivot
              ELSE /\ pred_disp_hf_pivot' = Append(pred_disp_hf_pivot, out.rows)
                   /\ pc' = IF k = Len(tailornet_hfs) THEN "interp4" ELSE "hf"
                   /\ UNCHANGED ret
    /\ UNCHANGED <<cloth_type, inputs, ret2, predictor, environment, weight, pred_disp_hf>>

\* pred_disp_hf = self.interp4(thetas, betas, gammas, pred_disp_hf_pivot,
\*                             sigma = self.kernel_sigma)
ForwardInterp4 ==
    /\ pc = "interp4"
    /\ \E r \in {interp4(tailornet_ss2g, basis, thetas, betas, gammas,
                         pred_disp_hf_pivot, kernel_sigma)} :
           /\ ran' = Append(ran, RanCall("ss2g", None, betas, gammas))
           /\ IF IsError(r.err)
              THEN /\ ret' = r.err
                   /\ pc' = "returned"
                   /\ UNCHANGED <<weight, pred_disp_hf>>
              ELSE /\ weight' = r.weight
                   /\ pred_disp_hf' = r.pred_disp
                   /\ pc' = "lf"
                   /\ UNCHANGED ret
    /\ UNCHANGED <<cloth_type, inputs, ret2, predictor, environment, pred_disp_hf_pivot>>

\* mutant: the blended high-frequency field is returned without pred_disp_lf
AddFields_WithoutLF(lf, hf) ==
    Mat3([b \in 1..Len(hf) |-> [v \in 1..Len(hf[b]) |-> [c \in 1..CoordDim |->
        [num |-> hf[b][v][c].num, den |-> hf[b][v][c].den]]]])

\* pred_disp_lf + pred_disp_hf for [N, V, 3] fields, pred_disp_hf a quotient
AddFields(lf, hf) ==
    Mat3([b \in 1..Len(hf) |-> [v \in 1..Len(hf[b]) |-> [c \in 1..CoordDim |->
        [num |-> lf[b][v][c] * hf[b][v][c].den + hf[b][v][c].num,
         den |-> hf[b][v][c].den]]]])

\* pred_disp_lf = self.tailornet_lf.forward(thetas, betas, gammas)
\*                    .view(batch_size, -1, 3);
\* return pred_disp_lf + pred_disp_hf
ForwardLF ==
    /\ pc = "lf"
    /\ \E pred_disp_lf \in
             {View3(TailorNetLF_forward(tailornet_lf, thetas, betas, gammas),
                    NRows(thetas))} :
           /\ ran' = Append(ran, RanCall("lf", thetas, betas, gammas))
           /\ ret' = IF IsError(pred_disp_lf) THEN pred_disp_lf
                     ELSE Tensor3(AddFields(pred_disp_lf.rows, pred_disp_hf))
    /\ pc' = "returned"
    /\ UNCHANGED <<cloth_type, inputs, ret2, predictor, environment, pred_disp_hf_pivot,
                   weight, pred_disp_hf>>

FwdNext == ForwardCall \/ ForwardHF \/ ForwardInterp4 \/ ForwardLF

SpecFwd == FwdInit /\ [][FwdNext]_vars

----------------------------------------------------------------------------
(* TailorNet.__init__: the files it reads under load_checkpoints_dir and   *)
(* the sub-models it builds from them.  The dataset (TailornetDataset) has *)
(* been read: basis has one row per pivot of dataset.shape_style_pairs.    *)

\* a file of the directory of sub-model (kind, p); p = 0 where there is
\* one sub-model of the kind
File(kind, p, name) == <<kind, p, name>>

\* the files __init__ tests or opens, for P pivots
Candidates(P) ==
    {File(k, 0, n) : k \in {"lf", "ss2g"}, n \in {"params.json", "lin.pth.tar"}}
    \cup {File("hf", p, n) : p \in 1..P, n \in {"params.json", "lin.pth.tar"}}
    \cup {File("baseline", 0, "params.json")}

\* the garment_class of the baseline tn_orig_baseline/t-shirt_female
BaselineCloth == "t-shirt"

\* params = json.load(f) of the sub-model's params.json if it exists, else
\* of the baseline's; open() raises when that does not exist either
LoadParams(kind, p) ==
    IF File(kind, p, "params.json") \in files
    THEN [err |-> "", garment_class |-> cloth_type]
    ELSE IF File("baseline", 0, "params.json") \in files
    THEN [err |-> "", garment_class |-> BaselineCloth]
    ELSE [err |-> "FileNotFoundError", garment_class |-> ""]

\* the parameters torch gives an mlp at construction (random initialisation)
UntrainedSeeds == {10, 11}

\* What building one sub-model can give: the exception of open(), or the
\* sub-model with the weights of its lin.pth.tar if that file exists and
\* with its initial weights if not.
BuildSubModel(kind, p, seed) ==
    LET prm == LoadParams(kind, p)
    IN  IF prm.err # ""
        THEN {[err |-> prm.err, net |-> <<>>, loaded |-> FALSE]}
        ELSE IF File(kind, p, "lin.pth.tar") \in files
        THEN {[err |-> "", net |-> SubModel(prm.garment_class, seed), loaded |-> TRUE]}
        ELSE {[err |-> "", net |-> SubModel(prm.garment_class, u), loaded |-> FALSE] :
                 u \in UntrainedSeeds}

\* __init__ is entered and the dataset is read (lines up to self.basis)
CtorInit ==
    /\ cloth_type \in {"old-t-shirt", "pant"}
    /\ \E P \in 1..MaxPivots :
          /\ basis = [p \in 1..P |-> ConstField(0)]
          /\ files \in SUBSET Candidates(P)
    /\ kernel_sigma = DistScale
    /\ tailornet_lf = <<>>
    /\ tailornet_hfs = <<>>
    /\ tailornet_ss2g = <<>>
    /\ loaded = Flags(0, FALSE)
    /\ training = Flags(0, FALSE)
    /\ built = <<>>
    /\ earlier = {}
    /\ thetas = None /\ betas = None /\ gammas = None
    /\ pc = "init_lf"
    /\ ret = None
    /\ ret2 = <<None, None, None>>
    /\ NoLocals

\* the exception leaves __init__: no predictor is returned
CtorRaise(e) ==
    /\ ret' = Raise(e)
    /\ pc' = "raised"
    /\ UNCHANGED <<predictor, built>>

\* "lf layers": self.tailornet_lf
CtorLF ==
    /\ pc = "init_lf"
    /\ \E r \in BuildSubModel("lf", 0, 0) :
          IF r.err # "" THEN CtorRaise(r.err)
          ELSE /\ tailornet_lf' = r.net
               /\ loaded' = [loaded EXCEPT !.lf = r.loaded]
               /\ training' = [training EXCEPT !.lf = TRUE]
               /\ pc' = "init_hf"
               /\ UNCHANGED <<tailornet_hfs, tailornet_ss2g, basis, kernel_sigma,
                              ret, built>>
    /\ UNCHANGED <<cloth_type, inputs, ret2, locals, files, earlier>>

\* "hf layers": one pass of the loop over dataset.shape_style_pairs
CtorHF ==
    /\ pc = "init_hf"
    /\ \E p \in {Len(tailornet_hfs) + 1} :
       \E r \in BuildSubModel("hf", p, 1 + p) :
          IF r.err # "" THEN CtorRaise(r.err)
          ELSE /\ tailornet_hfs' = Append(tailornet_hfs, r.net)
               /\ loaded' = [loaded EXCEPT !.hfs = Append(@, r.loaded)]
               /\ training' = [training EXCEPT !.hfs = Append(@, TRUE)]
               /\ pc' = IF p = Len(basis) THEN "init_ss2g" ELSE "init_hf"
               /\ UNCHANGED <<tailornet_lf, tailornet_ss2g, basis, kernel_sigma,
                              ret, built>>
    /\ UNCHANGED <<cloth_type, inputs, ret2, locals, files, earlier>>

\* self.tailornet_ss2g; __init__ returns
CtorSS2G ==
    /\ pc = "init_ss2g"
    /\ \E r \in BuildSubModel("ss2g", 0, 1) :
          IF r.err # "" THEN CtorRaise(r.err)
          ELSE /\ tailornet_ss2g' = r.net
               /\ loaded' = [loaded EXCEPT !.ss2g = r.loaded]
               /\ training' = [training EXCEPT !.ss2g = TRUE]
               /\ pc' = "idle"
               /\ UNCHANGED <<tailornet_lf, tailornet_hfs, basis, kernel_sigma, ret>>
               /\ built' = predictor'
    /\ UNCHANGED <<cloth_type, inputs, ret2, locals, files, earlier>>

CtorNext == CtorLF \/ CtorHF \/ CtorSS2G

SpecCtor == CtorInit /\ [][CtorNext]_vars

----------------------------------------------------------------------------
(* The sub-models in either mode.  In training mode (nn.Module.training,   *)
(* True after construction) the nn.Dropout(p=0.2) layer of FullyConnected  *)
(* zeroes entries of its input at random and multiplies the others by      *)
(* 1/(1 - p) = 5/4; in eval mode it is the identity.  To stay exact, the   *)
(* entries of an output computed here are numerators over DropDen.         *)

\* 1/(1 - p) = DropNum / DropDen for p = 0.2
DropNum == 5

DropDen == 4

\* The dropout masks drawn for one sub-model call: the set of the
\* (row, hidden unit) entries that are zeroed.  Training mode draws no
\* entry or one entry of the first row; eval mode draws none.
DropChoices(train) ==
    IF train THEN {{}} \cup {{<<1, o>>} : o \in 1..HiddenSize} ELSE {{}}

\* nn.Dropout(p=0.2) on the tensor x, times DropDen
Dropout(x0, train, drop) ==
    Bind(x0, LAMBDA x :
    IF IsError(x) THEN x
    ELSE Tensor([n \in 1..NRows(x) |-> [o \in 1..NCols(x) |->
                    IF ~train THEN DropDen * x.rows[n][o]
                    ELSE IF <<n, o>> \in drop THEN 0
                    ELSE DropNum * x.rows[n][o]]]))

\* nn.Linear on a tensor of numerators over DropDen
LinearOver(seed, l, in_f, out_f, x0) ==
    Bind(x0, LAMBDA x :
    IF IsError(x) THEN x
    ELSE IF ~IsTensor(x) THEN Raise("TypeError")
    ELSE IF NCols(x) # in_f THEN Raise("RuntimeError")
    ELSE Tensor([n \in 1..NRows(x) |->
                 [o \in 1..out_f |->
                    SumSeq([i \in 1..in_f |-> Weight(seed, l, o, i) * x.rows[n][i]])
                    + DropDen * Bias(seed, l, o)]]))

RECURSIVE HiddenLayersOver(_, _, _, _)
HiddenLayersOver(seed, l, last, x) ==
    IF l > last THEN x
    ELSE HiddenLayersOver(seed, l + 1, last,
                          ReLU(LinearOver(seed, l, HiddenSize, HiddenSize, x)))

\* FullyConnected.forward of an mlp in the given mode, times DropDen
FullyConnectedMode(seed, input_size, output_size, x, train, drop) ==
    LinearOver(seed, NumLayers, HiddenSize, output_size,
               HiddenLayersOver(seed, 2, NumLayers - 1,
                   Dropout(ReLU(Linear(seed, 1, input_size, HiddenSize, x)),
                           train, drop)))

\* TailorNetLF.forward, TailorNetHF.forward and TailorNetSS2G.forward of a
\* sub-model in the given mode, times DropDen
TailorNetLF_forwardMode(net, th, be, ga, train, drop) ==
    Bind(mask_inputs(th, be, ga, net.cloth_type), LAMBDA m :
         IF IsError(m[1]) THEN m[1]
         ELSE FullyConnectedMode(net.seed, ThetaWidth + BetaWidth + GammaWidth,
                                 n_verts, TorchCat(<<m[1], m[2], m[3]>>), train, drop))

TailorNetHF_forwardMode(net, th, be, ga, train, drop) ==
    FullyConnectedMode(net.seed, ThetaWidth, n_verts,
                       mask_thetas(th, net.cloth_type), train, drop)

TailorNetSS2G_forwardMode(net, th, be, ga, train, drop) ==
    Bind(mask_inputs(None, be, ga, net.cloth_type), LAMBDA m :
         IF IsError(m[1]) THEN m[1]
         ELSE FullyConnectedMode(net.seed, BetaWidth + GammaWidth, n_verts,
                                 TorchCat(<<m[2], m[3]>>), train, drop))

----------------------------------------------------------------------------
(* The predictor in use: eval(), train() and forward calls in whatever     *)
(* mode the sub-models are in.  A forward call is one step here.           *)

\* the dropout masks of the sub-model calls of one forward call
DropDraws ==
    {[lf |-> a, hfs |-> h, ss2g |-> c] :
        a \in DropChoices(training.lf),
        c \in DropChoices(training.ss2g),
        h \in {g \in [1..Len(tailornet_hfs) -> DropChoices(TRUE)] :
                  \A p \in 1..Len(tailornet_hfs) :
                      g[p] \in DropChoices(training.hfs[p])}}

\* a sub-model forward call with the mode the sub-model was in
RanMode(sub, th, be, ga, train) ==
    [sub |-> sub, thetas |-> th, betas |-> be, gammas |-> ga, training |-> train]

\* the [N, V, 3] outputs of the HF sub-models, times DropDen; a sub-model
\* whose call raises has its exception in its place
PivotsMode(th, be, ga, d) ==
    Mat([p \in 1..Len(tailornet_hfs) |->
            View3(TailorNetHF_forwardMode(tailornet_hfs[p], th, be, ga,
                                          training.hfs[p], d.hfs[p]),
                  NRows(th))])

\* KernelArg for rest vertices that are numerators over DropDen
KernelArgOver(rest_b, basis_p, nv, sigma) ==
    (DistScale *
       SumSeq([v \in 1..nv |->
           SumSeq([c \in 1..CoordDim |->
               LET d == rest_b[IF Len(rest_b) = 1 THEN 1 ELSE v][c]
                        - DropDen * basis_p[IF Len(basis_p) = 1 THEN 1 ELSE v][c]
               IN  d * d])]))
    \div (DropDen * DropDen * nv * sigma)

\* interp4 in the mode of the SS2G sub-model: [err, weight, pred_disp],
\* pred_disp being numerators over DropDen times the weights' denominator
interp4Mode(be, ga, pivot, d) ==
    Bind(View3(TailorNetSS2G_forwardMode(tailornet_ss2g, None, be, ga,
                                         training.ss2g, d.ss2g),
               Len(pivot[1])),
         LAMBDA rest_verts :
    IF IsError(rest_verts)
    THEN [err |-> rest_verts, weight |-> <<>>, pred_disp |-> <<>>]
    ELSE IF ~BroadcastOK(Len(rest_verts.rows[1]), Len(basis[1]))
    THEN [err |-> Raise("RuntimeError"), weight |-> <<>>, pred_disp |-> <<>>]
    ELSE Bind(NormalizedWeights(
                 Mat2([b \in 1..Len(rest_verts.rows) |-> [p \in 1..Len(basis) |->
                     ExpNeg(KernelArgOver(rest_verts.rows[b], basis[p],
                               BroadcastLen(Len(rest_verts.rows[1]), Len(basis[1])),
                               kernel_sigma))]])),
              LAMBDA w : [err |-> None, weight |-> w, pred_disp |-> Blend(pivot, w)]))

\* pred_disp_lf + pred_disp_hf as quotients
AddFieldsOver(lf, hf) ==
    Mat3([b \in 1..Len(hf) |-> [v \in 1..Len(hf[b]) |-> [c \in 1..CoordDim |->
        [num |-> lf[b][v][c] * hf[b][v][c].den + hf[b][v][c].num,
         den |-> DropDen * hf[b][v][c].den]]]])

\* the sub-model calls forward makes before the k-th one, in order
RanBefore(th, be, ga, k) ==
    [j \in 1..(k - 1) |->
        IF j <= Len(tailornet_hfs) THEN RanMode("hf", th, be, ga, training.hfs[j])
        ELSE IF j = Len(tailornet_hfs) + 1 THEN RanMode("ss2g", None, be, ga, training.ss2g)
        ELSE RanMode("lf", th, be, ga, training.lf)]

\* TailorNet.forward(betas, thetas, gammas) with the dropout masks d:
\* what it returns or raises, the calls it made and its locals
forwardMode(th, be, ga, d) ==
    Bind(PivotsMode(th, be, ga, d), LAMBDA hf :
    IF \E p \in 1..Len(hf) : IsError(hf[p])
    THEN LET p == CHOOSE q \in 1..Len(hf) :
                      IsError(hf[q]) /\ \A q2 \in 1..(q - 1) : ~IsError(hf[q2])
         IN  [ret |-> hf[p], ran |-> RanBefore(th, be, ga, p + 1),
              pivot |-> [q \in 1..(p - 1) |-> hf[q].rows],
              weight |-> <<>>, pred_disp |-> <<>>]
    ELSE Bind(Mat([p \in 1..Len(hf) |-> hf[p].rows]), LAMBDA pivot :
         Bind(interp4Mode(be, ga, pivot, d), LAMBDA r :
         IF IsError(r.err)
         THEN [ret |-> r.err, ran |-> RanBefore(th, be, ga, Len(hf) + 2),
               pivot |-> pivot, weight |-> <<>>, pred_disp |-> <<>>]
         ELSE Bind(View3(TailorNetLF_forwardMode(tailornet_lf, th, be, ga,
                                                 training.lf, d.lf),
                         NRows(th)),
                   LAMBDA lf :
                   [ret |-> IF IsError(lf) THEN lf
                            ELSE Tensor3(AddFieldsOver(lf.rows, r.pred_disp)),
                    ran |-> RanBefore(th, be, ga, Len(hf) + 3),
                    pivot |-> pivot, weight |-> r.weight,
                    pred_disp |-> r.pred_disp]))))

\* The arguments of the forward calls: two valid triples of one row each,
\* and a triple whose gammas have one row more than thetas and betas.
UseInputs ==
    {<<Batch(Row(ThetaWidth, {}, 0, MaxVal), 1),
       Batch(Row(BetaWidth, {}, 0, s), 1),
       Batch(Row(GammaWidth, {}, 0, -MaxVal), n)>> :
        s \in {0, MaxVal}, n \in {1, 2}}

\* The state after TailorNet.__init__ with every file present: every
\* sub-model is built for cloth_type with its checkpoint loaded and is in
\* training mode, as nn.Module.__init__ leaves it.
UseInit ==
    /\ cloth_type = "pant"
    /\ tailornet_lf = SubModel(cloth_type, 0)
    /\ tailornet_ss2g = SubModel(cloth_type, 1)
    /\ \E P \in 1..MaxPivots :
          /\ tailornet_hfs = [p \in 1..P |-> SubModel(cloth_type, 1 + p)]
          /\ basis = [p \in 1..P |-> ConstField(p - 1)]
          /\ files = Candidates(P)
    /\ kernel_sigma \in Sigmas
    /\ loaded = Flags(Len(tailornet_hfs), TRUE)
    /\ training = Flags(Len(tailornet_hfs), TRUE)
    /\ built = predictor
    /\ earlier = {}
    /\ thetas = None /\ betas = None /\ gammas = None
    /\ pc = "idle"
    /\ ret = None
    /\ ret2 = <<None, None, None>>
    /\ NoLocals

\* TailorNet.eval(): the override sets the LF, every HF and the SS2G
\* sub-model to eval mode
CallEval ==
    /\ pc = "idle"
    /\ training' = [lf |-> FALSE,
                    hfs |-> [p \in 1..Len(tailornet_hfs) |-> FALSE],
                    ss2g |-> FALSE]
    /\ UNCHANGED <<cloth_type, inputs, pc, ret, ret2, tailornet_lf, tailornet_hfs,
                   tailornet_ss2g, basis, kernel_sigma, loaded, locals,
                   environment>>

\* TailorNet.train(), inherited from nn.Module: it sets the mode of the
\* registered children, tailornet_lf and tailornet_ss2g; the sub-models of
\* the plain list tailornet_hfs are not children
CallTrain ==
    /\ pc = "idle"
    /\ training' = [training EXCEPT !.lf = TRUE, !.ss2g = TRUE]
    /\ UNCHANGED <<cloth_type, inputs, pc, ret, ret2, tailornet_lf, tailornet_hfs,
                   tailornet_ss2g, basis, kernel_sigma, loaded, locals,
                   environment>>

\* model.forward(betas, thetas, gammas), from the call to its return or
\* exception
CallForward ==
    /\ pc = "idle"
    /\ \E in \in UseInputs, d \in DropDraws :
       \E r \in {forwardMode(in[1], in[2], in[3], d)} :
          /\ thetas' = in[1]
          /\ betas' = in[2]
          /\ gammas' = in[3]
          /\ ret' = r.ret
          /\ ran' = r.ran
          /\ pred_disp_hf_pivot' = r.pivot
          /\ weight' = r.weight
          /\ pred_disp_hf' = r.pred_disp
    /\ pc' = "returned"
    /\ UNCHANGED <<cloth_type, ret2, predictor, environment>>

\* the caller has the result; the locals of the call are gone
ForwardReturn ==
    /\ pc = "returned"
    /\ earlier' = IF earlier = {}
                  THEN {[thetas |-> thetas, betas |-> betas, gammas |-> gammas,
                         ret |-> ret, training |-> training]}
                  ELSE earlier
    /\ thetas' = None /\ betas' = None /\ gammas' = None
    /\ ret' = None
    /\ pred_disp_hf_pivot' = <<>>
    /\ weight' = <<>>
    /\ pred_disp_hf' = <<>>
    /\ ran' = <<>>
    /\ pc' = "idle"
    /\ UNCHANGED <<cloth_type, ret2, predictor, files, built>>

UseNext == CallEval \/ CallTrain \/ CallForward \/ ForwardReturn

SpecUse == UseInit /\ [][UseNext]_vars

----------------------------------------------------------------------------
(* Claims about masking, checked under SpecMask. *)

\* the joint (0-based) of 1-based theta column j
JointOf(j) == (j - 1) \div JointDim

SameShape(a, b) == NRows(a) = NRows(b) /\ NCols(a) = NCols(b)

\* out keeps the entries of inp at the 1-based columns satisfying Keep
\* and is exactly zero at every other column
KeepsInZeroesOut(inp, out, Keep(_)) ==
    /\ IsTensor(out)
    /\ SameShape(inp, out)
    /\ \A i \in 1..NRows(inp) : \A j \in 1..NCols(inp) :
          out.rows[i][j] = IF Keep(j) THEN inp.rows[i][j] ELSE 0

\* out keeps the entries of inp at the 1-based columns satisfying Keep
KeepsIn(inp, out, Keep(_)) ==
    /\ IsTensor(out)
    /\ SameShape(inp, out)
    /\ \A i \in 1..NRows(inp) : \A j \in 1..NCols(inp) :
          Keep(j) => out.rows[i][j] = inp.rows[i][j]

\* C1: for every category of the masking table, masking leaves every
\* component inside the category's valid-index set unchanged and sets every
\* component outside it to exactly zero: theta keeps the 3 components of the
\* joints VALID_THETA lists, beta keeps columns {0,1}, gamma keeps columns
\* {0,1} (for 'old-t-shirt' the gamma columns outside the valid set are the
\* exception and only the columns inside it are claimed unchanged).
C1_MaskingCompleteness ==
    (pc = "masked" /\ cloth_type \in Categories) =>
        /\ IsTensor(thetas) =>
              LET InTheta(j) == JointOf(j) \in VALID_THETA[cloth_type]
              IN  KeepsInZeroesOut(thetas, ret[1], InTheta)
        /\ IsTensor(betas) =>
              LET InBeta(j) == (j - 1) \in {0, 1}
              IN  KeepsInZeroesOut(betas, ret[2], InBeta)
        /\ IsTensor(gammas) =>
              LET InGamma(j) == (j - 1) \in {0, 1}
              IN  IF cloth_type = "old-t-shirt"
                  THEN KeepsIn(gammas, ret[3], InGamma)
                  ELSE KeepsInZeroesOut(gammas, ret[3], InGamma)

\* a 'pant' call in which masking zeroed a non-zero theta entry, kept a
\* non-zero theta entry, and zeroed non-zero beta and gamma entries
C1_Witness ==
    /\ pc = "masked"
    /\ cloth_type = "pant"
    /\ IsTensor(thetas) /\ IsTensor(betas) /\ IsTensor(gammas)
    /\ \E j \in 1..ThetaWidth : thetas.rows[1][j] # 0 /\ ret[1].rows[1][j] = 0
    /\ \E j \in 1..ThetaWidth : thetas.rows[1][j] # 0 /\ ret[1].rows[1][j] = thetas.rows[1][j]
    /\ \E j \in 1..BetaWidth : betas.rows[1][j] # 0 /\ ret[2].rows[1][j] = 0
    /\ \E j \in 1..GammaWidth : gammas.rows[1][j] # 0 /\ ret[3].rows[1][j] = 0

\* C2: masking is idempotent: mask_inputs applied to the output of
\* mask_inputs with the same category (the legacy 'old-t-shirt' included)
\* returns the same triple as the single application.
C2_MaskingIdempotent ==
    pc = "remasked" => ret2 = ret

\* an 'old-t-shirt' call whose first masking changed all three inputs and
\* whose gamma had a non-zero component 2, masked a second time
C2_Witness ==
    /\ pc = "remasked"
    /\ cloth_type = "old-t-shirt"
    /\ IsTensor(thetas) /\ IsTensor(betas) /\ IsTensor(gammas)
    /\ ret[1] # thetas /\ ret[2] # betas /\ ret[3] # gammas
    /\ gammas.rows[1][3] # 0
    /\ ret2[3].rows[1][3] = 3

\* C3: for 'old-t-shirt' mask_gammas returns (gamma[0], gamma[1], 1.5, 0)
\* whatever components 2 and 3 of the input were; for every other category
\* it returns (gamma[0], gamma[1], 0, 0).
C3_GammaOffset ==
    (pc = "masked" /\ IsTensor(gammas) /\ ~IsError(ret[3])) =>
        /\ IsTensor(ret[3])
        /\ NRows(ret[3]) = NRows(gammas)
        /\ \A i \in 1..NRows(gammas) :
              ret[3].rows[i] =
                 <<gammas.rows[i][1], gammas.rows[i][2],
                   IF cloth_type = "old-t-shirt" THEN 3 ELSE 0, 0>>

\* an 'old-t-shirt' call whose input gamma had non-zero components 2 and 3
C3_Witness ==
    /\ pc = "masked"
    /\ cloth_type = "old-t-shirt"
    /\ IsTensor(gammas)
    /\ gammas.rows[1][3] = -MaxVal /\ gammas.rows[1][4] # 0
    /\ ret[3].rows[1][3] = 3 /\ ret[3].rows[1][4] = 0

\* x when it is present, the tensor d when x is None
Present(x, d) == IF IsNone(x) THEN d ELSE x

\* the result of masking with all three inputs present: an absent input is
\* replaced by a tensor of zeroes with the batch size 1
AllPresentMasked ==
    mask_inputs(Present(thetas, Batch(Row(ThetaWidth, {}, 0, 0), 1)),
                Present(betas, Batch(Row(BetaWidth, {}, 0, 0), 1)),
                Present(gammas, Batch(Row(GammaWidth, {}, 0, 0), 1)),
                cloth_type)

C4_NoneSkipped ==
    (pc = "masked" /\ cloth_type \in Categories) =>
        /\ \A k \in 1..3 : ~IsError(ret[k])
        /\ IsNone(thetas) => IsNone(ret[1])
        /\ IsNone(betas) => IsNone(ret[2])
        /\ IsNone(gammas) => IsNone(ret[3])
        /\ ~IsNone(thetas) => ret[1] = AllPresentMasked[1]
        /\ ~IsNone(betas) => ret[2] = AllPresentMasked[2]
        /\ ~IsNone(gammas) => ret[3] = AllPresentMasked[3]

C4_InputsKept ==
    /\ thetas' = thetas
    /\ betas' = betas
    /\ gammas' = gammas

\* C4: mask_inputs accepts None for any of theta/beta/gamma: an absent
\* input is returned as None without being masked, each present input is
\* masked exactly as when all three are present, and no array of the caller
\* is modified in place.
C4_NoneAcceptedNoMutation ==
    [](C4_NoneSkipped) /\ [][C4_InputsKept]_vars

\* a call with thetas absent (as TailorNetSS2G.forward makes it) and betas
\* and gammas present, which returned None and two masked tensors that
\* differ from the caller's tensors
C4_Witness ==
    /\ pc = "masked"
    /\ cloth_type \in Categories
    /\ IsNone(thetas) /\ IsTensor(betas) /\ IsTensor(gammas)
    /\ IsNone(ret[1]) /\ IsTensor(ret[2]) /\ IsTensor(ret[3])
    /\ ret[2] # betas /\ ret[3] # gammas

\* C5: masking fails with an UnknownCategory error (the KeyError of the
\* VALID_THETA lookup) whenever the garment category is not in the masking
\* table, for every combination of present and absent inputs, and returns
\* no masked values.
C5_UnknownCategoryFails ==
    (pc = "masked" /\ cloth_type \notin Categories) =>
        \A k \in 1..3 : IsError(ret[k]) /\ ret[k].err = "KeyError"

----------------------------------------------------------------------------
(* Claims about the sub-models' input widths, checked under SpecSub. *)

\* C7: every sub-component enforces its declared input feature widths
\* (theta 72, beta 10, gamma 4): a call of the LF, an HF or the SS2G
\* predictor with an input it reads whose width differs from the declared
\* one fails with an error and is never accepted silently.
C7_WidthsEnforced ==
    /\ (pc = "lf_done" /\ ~IsError(ret)) =>
          /\ NCols(thetas) = ThetaWidth
          /\ NCols(betas) = BetaWidth
          /\ NCols(gammas) = GammaWidth
    /\ (pc = "hf_done" /\ ~IsError(ret)) => NCols(thetas) = ThetaWidth
    /\ (pc = "ss2g_done" /\ ~IsError(ret)) =>
          /\ NCols(betas) = BetaWidth
          /\ NCols(gammas) = GammaWidth

----------------------------------------------------------------------------
(* Claims about TailorNet.forward and interp4, checked under SpecFwd. *)

\* the batch dimensions of the arguments of the forward call in progress
BatchSizes == {NRows(thetas), NRows(betas), NRows(gammas)}

\* C6: whenever the batch dimensions of theta, beta and gamma are not all
\* equal, forward fails before any sub-model (an HF network, SS2G, LF) has
\* been run, and it never returns a displacement field.
C6_MismatchFailsBeforeSubModels ==
    (pc # "idle" /\ Cardinality(BatchSizes) > 1) =>
        /\ ran = <<>>
        /\ pc = "returned" => IsError(ret)

\* entry (v, c) of row b of a [N, V * 3] sub-model output viewed as [N, V, 3]
Coord(out, b, v, c) == out.rows[b][(v - 1) * CoordDim + c]

\* the sub-model calls of one complete forward call, in order, each with
\* the arguments of the forward call itself
ForwardCalls ==
    [k \in 1..(Len(tailornet_hfs) + 2) |->
        IF k <= Len(tailornet_hfs) THEN RanCall("hf", thetas, betas, gammas)
        ELSE IF k = Len(tailornet_hfs) + 1 THEN RanCall("ss2g", None, betas, gammas)
        ELSE RanCall("lf", thetas, betas, gammas)]

\* C8: for batch size N, P pivots and V vertices forward returns a field of
\* shape (N, V, 3) whose entry (b, v, c) is the low-frequency predictor's
\* output on (theta, beta, gamma) plus the sum over the pivots p of
\* weight[b, p] times the output of pivot p's high-frequency predictor; the
\* sub-models are passed the arguments of forward as they are, unmasked.
C8_ForwardIsSum ==
    (pc = "returned" /\ ~IsError(ret)) =>
        \A lf \in {TailorNetLF_forward(tailornet_lf, thetas, betas, gammas)} :
        \A hf \in {Mat([p \in 1..Len(tailornet_hfs) |->
                        TailorNetHF_forward(tailornet_hfs[p], thetas, betas, gammas)])} :
            /\ IsTensor(ret)
            /\ Len(ret.rows) = NRows(thetas)
            /\ \A b \in 1..Len(ret.rows) :
                  /\ Len(ret.rows[b]) = NumVerts
                  /\ \A v \in 1..NumVerts :
                        /\ Len(ret.rows[b][v]) = CoordDim
                        /\ \A c \in 1..CoordDim :
                              /\ ret.rows[b][v][c].den = weight[b][1].den
                              /\ ret.rows[b][v][c].num =
                                    Coord(lf, b, v, c) * weight[b][1].den
                                    + SumSeq([p \in 1..Len(hf) |->
                                                weight[b][p].num * Coord(hf[p], b, v, c)])
            /\ ran = ForwardCalls

\* a forward call of two rows and two pivots that returned a field: the
\* pivots' weights differ and are not zero, the two high-frequency outputs
\* differ, and the caller's thetas were not masked
C8_Witness ==
    /\ pc = "returned"
    /\ IsTensor(ret)
    /\ NRows(thetas) = 2
    /\ Len(tailornet_hfs) = 2
    /\ weight[1][1].num # weight[1][2].num
    /\ weight[1][1].num > 0 /\ weight[1][2].num > 0
    /\ pred_disp_hf_pivot[1] # pred_disp_hf_pivot[2]
    /\ \E v \in 1..NumVerts, c \in 1..CoordDim : ret.rows[1][v][c].num # 0
    /\ thetas.rows[1][1] # 0
    /\ cloth_type = "pant"

\* the rest vertices interp4 computes: the SS2G output viewed as [bs, -1, 3]
RestVerts ==
    View3(TailorNetSS2G_forward(tailornet_ss2g, None, betas, gammas), NRows(thetas))

\* exp(-dist[b, p] / sigma) with dist[b, p] 1000 times the mean over the
\* vertices of the squared Euclidean distance between the rest vertices of
\* batch element b and basis row p
UnnormalizedWeight(rest, b, p) ==
    ExpNeg((DistScale *
            SumSeq([v \in 1..NumVerts |->
                SumSeq([c \in 1..CoordDim |->
                    (rest[b][IF Len(rest[b]) = 1 THEN 1 ELSE v][c] - basis[p][v][c])
                    * (rest[b][IF Len(rest[b]) = 1 THEN 1 ELSE v][c] - basis[p][v][c])])]))
           \div (NumVerts * kernel_sigma))

\* C9: in interp4, for every batch element whose weights are not degenerate
\* (the sum of the unnormalized weights is positive), the normalized
\* weights of the P pivots are each non-negative and sum to 1, the
\* unnormalized weight of pivot p being exp(-dist[b, p] / sigma).
C9_WeightsSumToOne ==
    (pc \in {"lf", "returned"} /\ weight # <<>>) =>
        \A rest \in {RestVerts.rows} :
        \A b \in 1..Len(weight) :
            /\ Len(weight[b]) = Len(basis)
            /\ weight[b][1].den > 0 =>
                  /\ \A p \in 1..Len(basis) :
                        /\ weight[b][p].den = weight[b][1].den
                        /\ weight[b][p].num >= 0
                        /\ weight[b][p].num = UnnormalizedWeight(rest, b, p)
                  /\ SumSeq([p \in 1..Len(basis) |-> weight[b][p].num])
                        = weight[b][1].den

\* interp4 computed the weights of two pivots at different distances from
\* the rest vertices: both positive, one larger than the other
C9_Witness ==
    /\ pc = "lf"
    /\ Len(basis) = 2
    /\ basis[1] # basis[2]
    /\ weight[1][1].num > weight[1][2].num
    /\ weight[1][2].num > 0
    /\ weight[1][1].den = weight[1][1].num + weight[1][2].num
    /\ weight[1][1].den > 1

\* the basis rows of all pivots are the same
IdenticalBases == \A p \in 1..Len(basis) : basis[p] = basis[1]

\* C10: degenerate weights are never propagated as NaN: when the unnormalized
\* weight of every pivot is zero, or when the bases of all pivots are
\* identical, the normalized weights are the uniform 1/P.
C10_DegenerateWeightsUniform ==
    (pc \in {"lf", "returned"} /\ weight # <<>>) =>
        \A rest \in {RestVerts.rows} :
        \A b \in 1..Len(weight) :
            ((\A p \in 1..Len(basis) : UnnormalizedWeight(rest, b, p) = 0)
                 \/ IdenticalBases) =>
                \A p \in 1..Len(basis) :
                    /\ weight[b][p].den > 0
                    /\ Len(basis) * weight[b][p].num = weight[b][p].den

\* C11: with exactly one pivot the blended high-frequency field of interp4
\* equals that pivot's raw high-frequency output exactly (its weight is 1),
\* whatever the distance between the rest vertices and the pivot's basis row.
C11_SinglePivotIsIdentity ==
    (pc \in {"lf", "returned"} /\ weight # <<>> /\ Len(basis) = 1) =>
        \A b \in 1..Len(pred_disp_hf) :
            /\ weight[b][1].den > 0
            /\ weight[b][1].num = weight[b][1].den
            /\ \A v \in 1..Len(pred_disp_hf[b]) : \A c \in 1..CoordDim :
                  /\ pred_disp_hf[b][v][c].den > 0
                  /\ pred_disp_hf[b][v][c].num =
                        pred_disp_hf[b][v][c].den * pred_disp_hf_pivot[1][b][v][c]

----------------------------------------------------------------------------
(* Claims about TailorNet.__init__, checked under SpecCtor. *)

\* every sub-model of the predictor has had its weights loaded
AllLoaded ==
    /\ loaded.lf
    /\ loaded.ss2g
    /\ \A p \in 1..Len(loaded.hfs) : loaded.hfs[p]

\* C12: construction fails when the checkpoint of a sub-model is absent:
\* no predictor whose LF, an HF or the SS2G sub-model has not loaded its
\* weights is ever returned by the constructor.
C12_MissingWeightsFatal ==
    pc = "idle" => AllLoaded

----------------------------------------------------------------------------
(* Claims about the predictor in use, checked under SpecUse. *)

\* C14: every forward call runs the LF network, each per-pivot HF network
\* and the SS2G network in eval mode (dropout disabled), after any sequence
\* of construction, eval() and train() calls on the predictor.
C14_ForwardInEvalMode ==
    pc = "returned" => \A k \in 1..Len(ran) : ~ran[k].training

\* the values of two results are the same: the same exception, or fields
\* of the same shape whose entries are equal as quotients (NaN for NaN)
SameResult(a, b) ==
    IF ~IsTensor(a) \/ ~IsTensor(b) THEN a = b
    ELSE /\ Len(a.rows) = Len(b.rows)
         /\ \A i \in 1..Len(a.rows) :
               /\ Len(a.rows[i]) = Len(b.rows[i])
               /\ \A v \in 1..Len(a.rows[i]) : \A c \in 1..CoordDim :
                     /\ (a.rows[i][v][c].den = 0) <=> (b.rows[i][v][c].den = 0)
                     /\ a.rows[i][v][c].num * b.rows[i][v][c].den
                           = b.rows[i][v][c].num * a.rows[i][v][c].den

\* C13: a forward call, whether it returns or raises, leaves the list of HF
\* sub-models, the basis, the kernel sigma and the sub-models' weights as
\* the constructor built them, and a call on the predictor as constructed
\* returns the same result as the same call made on it when it was fresh.
C13_ForwardLeavesPredictor ==
    pc = "returned" =>
        /\ <<tailornet_lf, tailornet_hfs, tailornet_ss2g, basis, kernel_sigma, loaded>>
              = <<built[1], built[2], built[3], built[4], built[5], built[6]>>
        /\ \A e \in earlier :
              (/\ e.thetas = thetas /\ e.betas = betas /\ e.gammas = gammas
               /\ e.training = built[7] /\ training = built[7])
                 => SameResult(e.ret, ret)

----------------------------------------------------------------------------
(* The per-pivot passes of TailorNet.forward, checked under SpecFwd. *)

====
